---- MODULE Spec2Model ----
(***************************************************************************)
(* simple-db read path: the serial-type classifier and the record decoder  *)
(* of src/src/record.rs, and the two-pass catalog builder and index        *)
(* matcher of src/src/sqlite_schema.rs.                                    *)
(*                                                                         *)
(* Number representation.  A byte is a number in 0..255.  An i64 or f64    *)
(* value is kept as its 8 big-endian bytes (the argument of from_be_bytes),*)
(* so every width is bit-exact.  A usize that has wrapped below zero is    *)
(* kept as the negative number n standing for 2^64 + n.                    *)
(***************************************************************************)
EXTENDS Integers, Sequences, FiniteSets, TLC

VARIABLES
    code, cls,                                   \* classifier: input, outcome
    payload, pc, cursor, remaining_bytes,        \* Record::read
    columns, values, result, panic_msg,
    rows, cpc, ri, tables, table_names, cresult, \* SchemaStore::read
    listed, found                                \* user_tables / find_applicable_index

classVars == <<code, cls>>
recordVars == <<payload, pc, cursor, remaining_bytes, columns, values, result, panic_msg>>
catalogVars == <<rows, cpc, ri, tables, table_names, cresult, listed, found>>
vars == <<classVars, recordVars, catalogVars>>

(***************************************************************************)
(* Bounds of the model.                                                    *)
(***************************************************************************)
MaxCode == 140
MaxCols == 2
MaxBody == 8
MaxRows == 4

(***************************************************************************)
(* Serial-type classifier: impl From<u64> for ColumnType.                  *)
(***************************************************************************)
Unreachable == [tag |-> "unreachable", size |-> 0]

ColumnTypeFrom(value) ==
    CASE value = 0 -> [tag |-> "Null", size |-> 0]
      [] value = 1 -> [tag |-> "I8", size |-> 1]
      [] value = 2 -> [tag |-> "I16", size |-> 2]
      [] value = 3 -> [tag |-> "I24", size |-> 3]
      [] value = 4 -> [tag |-> "I32", size |-> 4]
      [] value = 5 -> [tag |-> "I48", size |-> 6]
      [] value = 6 -> [tag |-> "I64", size |-> 8]
      [] value = 7 -> [tag |-> "F64", size |-> 8]
      [] value = 8 -> [tag |-> "Zero", size |-> 0]
      [] value = 9 -> [tag |-> "One", size |-> 0]
      [] value > 12 /\ value % 2 = 0 -> [tag |-> "Blob", size |-> (value - 12) \div 2]
      [] value > 13 /\ value % 2 = 1 -> [tag |-> "Text", size |-> (value - 13) \div 2]
      [] OTHER -> Unreachable

(***************************************************************************)
(* varient::read, the base-128 varint decoder.  At most 9 bytes; each of   *)
(* the first 8 gives its low 7 bits and continues while its high bit is    *)
(* set; a 9th byte gives all 8 bits.  ok = FALSE when the input ends       *)
(* before the varint does.                                                 *)
(***************************************************************************)
RECURSIVE VarintFrom(_, _, _)
VarintFrom(bytes, i, acc) ==
    IF i > Len(bytes) THEN [ok |-> FALSE, value |-> 0, offset |-> 0]
    ELSE IF i = 9 THEN [ok |-> TRUE, value |-> acc * 256 + bytes[i], offset |-> 9]
    ELSE IF bytes[i] < 128
         THEN [ok |-> TRUE, value |-> acc * 128 + bytes[i], offset |-> i]
         ELSE VarintFrom(bytes, i + 1, acc * 128 + (bytes[i] % 128))

VarintRead(bytes) == VarintFrom(bytes, 1, 0)

\* &payload[from..]
SliceFrom(p, from) == SubSeq(p, from + 1, Len(p))

(***************************************************************************)
(* read_n_bytes!: the 8 bytes handed to from_be_bytes, the n payload bytes *)
(* at the cursor copied into the tail of a zeroed array.                   *)
(***************************************************************************)
ReadNBytes(p, cur, n) ==
    [i \in 1..8 |-> IF i <= 8 - n THEN 0 ELSE p[cur + (i - (8 - n))]]

(***************************************************************************)
(* Record::read, lines 126-131: the header-size varint, the remaining      *)
(* count, and the allocation of the column vector.  The subtraction on a   *)
(* usize panics when overflow checks are on and wraps when they are off;   *)
(* Vec::with_capacity of a wrapped count panics with a capacity overflow.  *)
(***************************************************************************)
Panic(msg) == result' = "panic" /\ panic_msg' = msg

ReadHeaderSize ==
    /\ pc = "start" /\ result = "running"
    /\ LET v == VarintRead(SliceFrom(payload, cursor)) IN
       IF ~v.ok
       THEN /\ Panic("TruncatedVarint")
            /\ UNCHANGED <<pc, cursor, remaining_bytes, columns, values>>
       ELSE /\ cursor' = cursor + v.offset
            /\ columns' = <<>>
            /\ UNCHANGED values
            /\ IF v.value >= v.offset
               THEN /\ remaining_bytes' = v.value - v.offset
                    /\ pc' = "header"
                    /\ UNCHANGED <<result, panic_msg>>
               ELSE \/ /\ Panic("attempt to subtract with overflow")
                       /\ UNCHANGED <<pc, remaining_bytes>>
                    \/ /\ remaining_bytes' = v.value - v.offset
                       /\ Panic("capacity overflow")
                       /\ UNCHANGED pc
    /\ UNCHANGED <<payload, classVars, catalogVars>>

(***************************************************************************)
(* Record::read, lines 133-138: one iteration of the header loop.          *)
(***************************************************************************)
ReadColumnType ==
    /\ pc = "header" /\ result = "running"
    /\ remaining_bytes # 0
    /\ LET v == VarintRead(SliceFrom(payload, cursor)) IN
       IF ~v.ok
       THEN /\ Panic("TruncatedVarint")
            /\ UNCHANGED <<pc, cursor, remaining_bytes, columns, values>>
       ELSE /\ cursor' = cursor + v.offset
            /\ UNCHANGED <<pc, values>>
            /\ LET typed ==
                     IF ColumnTypeFrom(v.value) = Unreachable
                     THEN /\ Panic("internal error: entered unreachable code")
                          /\ UNCHANGED columns
                     ELSE /\ columns' = Append(columns, ColumnTypeFrom(v.value))
                          /\ UNCHANGED <<result, panic_msg>>
               IN
               IF remaining_bytes < 0 \/ remaining_bytes >= v.offset
               THEN /\ remaining_bytes' = remaining_bytes - v.offset
                    /\ typed
               ELSE \/ /\ Panic("attempt to subtract with overflow")
                       /\ UNCHANGED <<remaining_bytes, columns>>
                    \/ /\ remaining_bytes' = remaining_bytes - v.offset
                       /\ typed
    /\ UNCHANGED <<payload, classVars, catalogVars>>

HeaderDone ==
    /\ pc = "header" /\ result = "running"
    /\ remaining_bytes = 0
    /\ pc' = "body"
    /\ values' = <<>>
    /\ UNCHANGED <<payload, cursor, remaining_bytes, columns, result, panic_msg>>
    /\ UNCHANGED <<classVars, catalogVars>>

(***************************************************************************)
(* Record::read, lines 141-165: one iteration of the value loop.           *)
(***************************************************************************)
ValueTag(column) == column.tag

ReadValue ==
    /\ pc = "body" /\ result = "running"
    /\ Len(values) < Len(columns)
    /\ LET column == columns[Len(values) + 1] IN
       IF column.tag \in {"Null", "Zero", "One"}
       THEN /\ values' = Append(values, [tag |-> ValueTag(column), bytes |-> <<>>])
            /\ UNCHANGED <<cursor, result, panic_msg>>
       ELSE IF cursor + column.size > Len(payload)
       THEN /\ Panic("range end index out of range for slice")
            /\ UNCHANGED <<cursor, values>>
       ELSE /\ values' = Append(values,
                   [tag |-> ValueTag(column),
                    bytes |-> IF column.tag \in {"Blob", "Text"}
                              THEN SubSeq(payload, cursor + 1, cursor + column.size)
                              ELSE ReadNBytes(payload, cursor, column.size)])
            /\ cursor' = cursor + column.size
            /\ UNCHANGED <<result, panic_msg>>
    /\ UNCHANGED <<payload, pc, remaining_bytes, columns>>
    /\ UNCHANGED <<classVars, catalogVars>>

ReturnRecord ==
    /\ pc = "body" /\ result = "running"
    /\ Len(values) = Len(columns)
    /\ result' = "Record"
    /\ UNCHANGED <<payload, pc, cursor, remaining_bytes, columns, values, panic_msg>>
    /\ UNCHANGED <<classVars, catalogVars>>

(***************************************************************************)
(* The classifier on its own: one call of ColumnType::from per behaviour.  *)
(***************************************************************************)
NotClassified == [tag |-> "none", size |-> 0]

Classify ==
    /\ cls = NotClassified
    /\ cls' = ColumnTypeFrom(code)
    /\ UNCHANGED <<code, recordVars, catalogVars>>

(***************************************************************************)
(* Payloads handed to Record::read: a header-size byte, the varints of up  *)
(* to MaxCols serial types, and up to MaxBody body bytes.  The header-size *)
(* byte is free, so headers that are too short or too long are included.   *)
(***************************************************************************)
TypeEncodings == {<<c>> : c \in 0..15} \cup {<<129, 1>>}

SeqsUpTo(S, n) == UNION {[1..k -> S] : k \in 0..n}

RECURSIVE Flatten(_)
Flatten(ss) == IF ss = <<>> THEN <<>> ELSE Head(ss) \o Flatten(Tail(ss))

Bodies ==
    {<<>>} \cup {[i \in 1..k |-> IF i = 1 THEN b ELSE 1] : k \in 1..MaxBody, b \in {127, 128}}

Payloads ==
    {<<>>} \cup
    {<<hs>> \o Flatten(ts) \o body :
        hs \in 0..(MaxCols + 2), ts \in SeqsUpTo(TypeEncodings, MaxCols), body \in Bodies}

ClassIdle == code = 0 /\ cls = NotClassified

RecordIdle ==
    /\ payload = <<>> /\ pc = "start" /\ cursor = 0 /\ remaining_bytes = 0
    /\ columns = <<>> /\ values = <<>> /\ result = "idle" /\ panic_msg = ""

CatalogIdle ==
    /\ rows = <<>> /\ cpc = "idle" /\ ri = 1 /\ tables = <<>> /\ table_names = <<>>
    /\ cresult = "idle" /\ listed = <<"none">> /\ found = <<"none">>

InitClassify ==
    /\ code \in 0..MaxCode /\ cls = NotClassified
    /\ RecordIdle /\ CatalogIdle

NextClassify == Classify

SpecClassify == InitClassify /\ [][NextClassify]_vars

InitRecord ==
    /\ payload \in Payloads
    /\ pc = "start" /\ cursor = 0 /\ remaining_bytes = 0
    /\ columns = <<>> /\ values = <<>> /\ result = "running" /\ panic_msg = ""
    /\ ClassIdle /\ CatalogIdle

NextRecord ==
    \/ ReadHeaderSize
    \/ ReadColumnType
    \/ HeaderDone
    \/ ReadValue
    \/ ReturnRecord

SpecRecord == InitRecord /\ [][NextRecord]_vars

(***************************************************************************)
(* Schema rows.  A name is its sequence of characters.  A row's sql text   *)
(* is kept as what it says: a table creation (name, fields), an index      *)
(* creation (name, owning table, column names) or anything else (a view,   *)
(* a trigger).  A row's rootpage is its position in the schema table + 1.  *)
(***************************************************************************)
NameT == <<"t">>
NameSqlite == <<"s", "q", "l", "i", "t", "e">>
NameInternal == <<"s", "q", "l", "i", "t", "e", "_", "x">>
ReservedPrefix == <<"s", "q", "l", "i", "t", "e", "_">>

FieldsAB == <<[name |-> "a", is_primary_key |-> TRUE], [name |-> "b", is_primary_key |-> FALSE]>>

CreateTableSql(n) == [kind |-> "table", table |-> n, name |-> n, fields |-> FieldsAB]
CreateIndexSql(n, t, cs) == [kind |-> "index", table |-> t, name |-> n, fields |-> cs]
OtherSql == [kind |-> "view", table |-> <<"v">>, name |-> <<"v">>, fields |-> <<>>]

SqlTexts ==
    {CreateTableSql(NameT), CreateTableSql(NameSqlite), CreateTableSql(NameInternal),
     CreateIndexSql(<<"i">>, NameT, <<"a">>),
     CreateIndexSql(<<"j">>, NameT, <<"b", "a">>),
     CreateIndexSql(<<"k">>, NameSqlite, <<"b">>),
     OtherSql}

SchemaRows ==
    {[i \in 1..Len(ss) |-> [sql |-> ss[i], rootpage |-> i + 1]] :
        ss \in SeqsUpTo(SqlTexts, MaxRows)}

(***************************************************************************)
(* sql::parse_create: a table-creation or an index-creation command, or a  *)
(* failure for any other text.                                             *)
(***************************************************************************)
ParseCreate(sql) ==
    IF sql.kind \in {"table", "index"}
    THEN [ok |-> TRUE, cmd |-> sql]
    ELSE [ok |-> FALSE, cmd |-> sql]

StartsWith(str, prefix) ==
    Len(str) >= Len(prefix) /\ SubSeq(str, 1, Len(prefix)) = prefix

IsUserTableNoUnderscore(table) == ~StartsWith(table.name, NameSqlite)

\* Table::is_user_table
IsUserTable(table) == ~StartsWith(table.name, ReservedPrefix)

\* Column::from(&sql::Field)
ColumnFrom(field) == [name |-> field.name, is_primary_key |-> field.is_primary_key]

\* The Table built at lines 27-32.
NewTable(t, row) ==
    [name |-> t.table,
     columns |-> [c \in 1..Len(t.fields) |-> ColumnFrom(t.fields[c])],
     indexes |-> <<>>,
     rootpage |-> row.rootpage]

\* The Index built at lines 46-51.
NewIndex(i, row) ==
    [name |-> i.name, columns |-> i.fields, table_name |-> i.table, rootpage |-> row.rootpage]

\* tables.insert(table.name.clone(), table): a later insert replaces an earlier one.
InsertTable(tbls, table) ==
    [n \in DOMAIN tbls \cup {table.name} |-> IF n = table.name THEN table ELSE tbls[n]]

\* if table.is_user_table() { table_names.push(table.name.clone()) }
PushName(names, table) ==
    IF IsUserTable(table) THEN Append(names, table.name) ELSE names

PushIndexFront(tbls, index) ==
    [tbls EXCEPT ![index.table_name].indexes = <<index>> \o @]

\* tables.get_mut(&index.table_name) ... .indexes.push(index)
PushIndex(tbls, index) ==
    [tbls EXCEPT ![index.table_name].indexes = Append(@, index)]

(***************************************************************************)
(* SchemaStore::read, lines 22-39: pass 1, one row per step.               *)
(***************************************************************************)
Pass1Row ==
    /\ cpc = "pass1" /\ cresult = "running"
    /\ ri <= Len(rows)
    /\ LET row == rows[ri]
           parsed == ParseCreate(row.sql)
       IN
       IF ~parsed.ok
       THEN /\ cresult' = "Err: Failed to parse table definition"
            /\ UNCHANGED <<ri, tables, table_names>>
       ELSE /\ ri' = ri + 1
            /\ UNCHANGED cresult
            /\ IF parsed.cmd.kind = "table"
               THEN /\ table_names' = PushName(table_names, NewTable(parsed.cmd, row))
                    /\ tables' = InsertTable(tables, NewTable(parsed.cmd, row))
               ELSE UNCHANGED <<tables, table_names>>
    /\ UNCHANGED <<rows, cpc, listed, found>>
    /\ UNCHANGED <<classVars, recordVars>>

Pass1Done ==
    /\ cpc = "pass1" /\ cresult = "running"
    /\ ri > Len(rows)
    /\ cpc' = "pass2"
    /\ ri' = 1
    /\ UNCHANGED <<rows, tables, table_names, cresult, listed, found>>
    /\ UNCHANGED <<classVars, recordVars>>

(***************************************************************************)
(* SchemaStore::read, lines 41-58: pass 2, one row per step.               *)
(***************************************************************************)
Pass2Row ==
    /\ cpc = "pass2" /\ cresult = "running"
    /\ ri <= Len(rows)
    /\ LET row == rows[ri]
           parsed == ParseCreate(row.sql)
       IN
       IF ~parsed.ok
       THEN /\ cresult' = "Err: Failed to parse table definition"
            /\ UNCHANGED <<ri, tables>>
       ELSE IF parsed.cmd.kind = "index"
       THEN IF NewIndex(parsed.cmd, row).table_name \in DOMAIN tables
            THEN /\ tables' = PushIndex(tables, NewIndex(parsed.cmd, row))
                 /\ ri' = ri + 1
                 /\ UNCHANGED cresult
            ELSE /\ cresult' = "panic: Index without table"
                 /\ UNCHANGED <<ri, tables>>
       ELSE /\ ri' = ri + 1
            /\ UNCHANGED <<tables, cresult>>
    /\ UNCHANGED <<rows, cpc, table_names, listed, found>>
    /\ UNCHANGED <<classVars, recordVars>>

\* lines 60-63: Ok(Self { tables, table_names })
ReturnStore ==
    /\ cpc = "pass2" /\ cresult = "running"
    /\ ri > Len(rows)
    /\ cresult' = "Ok"
    /\ UNCHANGED <<rows, cpc, ri, tables, table_names, listed, found>>
    /\ UNCHANGED <<classVars, recordVars>>

(***************************************************************************)
(* SchemaStore::user_tables: the values of the hash map that are user      *)
(* tables, in the map's iteration order, which is any order of its keys.   *)
(***************************************************************************)
RECURSIVE Orderings(_)
Orderings(S) ==
    IF S = {} THEN {<<>>}
    ELSE UNION {{<<x>> \o rest : rest \in Orderings(S \ {x})} : x \in S}

FilterNone(tbls, order) == order

\* .filter(|table| table.is_user_table())
FilterUser(tbls, order) ==
    SelectSeq(order, LAMBDA n : IsUserTable(tbls[n]))

UserTables ==
    /\ cresult = "Ok"
    /\ \E order \in Orderings(DOMAIN tables) :
           listed' = <<"names", [k \in 1..Len(FilterUser(tables, order)) |->
                                     tables[FilterUser(tables, order)[k]].name]>>
    /\ UNCHANGED <<rows, cpc, ri, tables, table_names, cresult, found>>
    /\ UNCHANGED <<classVars, recordVars>>

(***************************************************************************)
(* Table::find_applicable_index.  index.columns[0] panics on an index      *)
(* without columns.                                                        *)
(***************************************************************************)
NoFilter == [some |-> FALSE, field |-> ""]
SomeFilter(f) == [some |-> TRUE, field |-> f]
Filters == {NoFilter} \cup {SomeFilter(f) : f \in {"a", "b", "c"}}

AnyColumnMatches(filter, index) ==
    \E c \in 1..Len(index.columns) : filter.field = index.columns[c]

\* |index| filter.field == index.columns[0]
LeadingMatches(filter, index) == filter.field = index.columns[1]

RECURSIVE FindFirst(_, _, _)
FindFirst(indexes, filter, k) ==
    IF k > Len(indexes) THEN [kind |-> "None"]
    ELSE IF indexes[k].columns = <<>> THEN [kind |-> "panic"]
    ELSE IF LeadingMatches(filter, indexes[k]) THEN [kind |-> "Some", index |-> indexes[k]]
    ELSE FindFirst(indexes, filter, k + 1)

FindApplicableIndexOf(table, filter) ==
    IF ~filter.some THEN [kind |-> "None"] ELSE FindFirst(table.indexes, filter, 1)

FindApplicableIndex ==
    /\ cresult = "Ok"
    /\ \E n \in DOMAIN tables, filter \in Filters :
           found' = <<"call", n, filter, FindApplicableIndexOf(tables[n], filter)>>
    /\ UNCHANGED <<rows, cpc, ri, tables, table_names, cresult, listed>>
    /\ UNCHANGED <<classVars, recordVars>>

InitCatalog ==
    /\ rows \in SchemaRows
    /\ cpc = "pass1" /\ ri = 1 /\ tables = <<>> /\ table_names = <<>>
    /\ cresult = "running" /\ listed = <<"none">> /\ found = <<"none">>
    /\ ClassIdle /\ RecordIdle

NextCatalog ==
    \/ Pass1Row
    \/ Pass1Done
    \/ Pass2Row
    \/ ReturnStore
    \/ UserTables
    \/ FindApplicableIndex

SpecCatalog == InitCatalog /\ [][NextCatalog]_vars

(***************************************************************************)
(* Claims about the classifier and the record decoder.                     *)
(***************************************************************************)
IntTags == {"I8", "I16", "I24", "I32", "I48", "I64"}

\* The two's-complement value of n big-endian bytes, sign-extended to 8 bytes.
SignExtended(raw) ==
    [i \in 1..8 |-> IF i <= 8 - Len(raw)
                    THEN (IF raw[1] >= 128 THEN 255 ELSE 0)
                    ELSE raw[i - (8 - Len(raw))]]

\* An i64 given by its 8 big-endian bytes is negative when its top bit is set.
IsNegative(bytes) == bytes[1] >= 128

RECURSIVE SizeSum(_, _, _)
SizeSum(cols, from, to) ==
    IF from > to THEN 0 ELSE cols[from].size + SizeSum(cols, from + 1, to)

\* Where in the payload the k-th decoded value began (0-based cursor).
ValueStart(k) == cursor - SizeSum(columns, k, Len(values))

RawBytes(k) == SubSeq(payload, ValueStart(k) + 1, ValueStart(k) + columns[k].size)

\* C1: every fixed-width integer column of width w decodes to the
\* two's-complement value of its w big-endian bytes sign-extended to 64 bits,
\* so a column whose first byte has its top bit set decodes to a negative i64.
C1_SignExtension ==
    pc = "body" =>
        \A k \in 1..Len(values) :
            values[k].tag \in IntTags =>
                /\ values[k].bytes = SignExtended(RawBytes(k))
                /\ (RawBytes(k)[1] >= 128 => IsNegative(values[k].bytes))

\* The classification the format prescribes for a valid code.
SerialTypeOf(n) ==
    CASE n = 0 -> [tag |-> "Null", size |-> 0]
      [] n = 1 -> [tag |-> "I8", size |-> 1]
      [] n = 2 -> [tag |-> "I16", size |-> 2]
      [] n = 3 -> [tag |-> "I24", size |-> 3]
      [] n = 4 -> [tag |-> "I32", size |-> 4]
      [] n = 5 -> [tag |-> "I48", size |-> 6]
      [] n = 6 -> [tag |-> "I64", size |-> 8]
      [] n = 7 -> [tag |-> "F64", size |-> 8]
      [] n = 8 -> [tag |-> "Zero", size |-> 0]
      [] n = 9 -> [tag |-> "One", size |-> 0]
      [] n >= 12 /\ n % 2 = 0 -> [tag |-> "Blob", size |-> (n - 12) \div 2]
      [] n >= 13 /\ n % 2 = 1 -> [tag |-> "Text", size |-> (n - 13) \div 2]

\* C2: classification maps 0..9 to the ten fixed classes, rejects 10 and 11,
\* and maps every even code >= 12 to Blob((n-12)/2) and every odd code >= 13
\* to Text((n-13)/2); code 12 is Blob(0) and code 13 is Text(0).  Any failure
\* on 10 and 11 is taken as the rejection, whatever its kind.
C2_ClassificationTotal ==
    cls # NotClassified =>
        IF code \in {10, 11}
        THEN cls.tag \in {"InvalidSerialType", "unreachable"}
        ELSE cls = SerialTypeOf(code)

\* C8: whenever decoding a column value would read past the end of the
\* payload, decoding fails with PayloadTooShort and produces no Record.
C8_PayloadTooShort ==
    (/\ result # "running"
     /\ pc = "body"
     /\ Len(values) < Len(columns)
     /\ cursor + columns[Len(values) + 1].size > Len(payload))
        => result = "PayloadTooShort"

\* C10: if the remaining header count would go negative or a serial-type code
\* is invalid, decoding fails and produces no Record; the header loop stops
\* there and the remaining count never wraps around.  Any failure is taken
\* as the TruncatedHeader failure, whatever its kind.
C10_TruncatedHeader ==
    /\ remaining_bytes >= 0
    /\ panic_msg \in {"attempt to subtract with overflow",
                      "capacity overflow",
                      "internal error: entered unreachable code"}
           => result \in {"TruncatedHeader", "panic"} /\ pc \in {"start", "header"}

(***************************************************************************)
(* Claims about the catalog builder and the index matcher.                 *)
(***************************************************************************)
Range(seq) == {seq[k] : k \in 1..Len(seq)}

IsTableRow(row) == row.sql.kind = "table"
IsIndexRow(row) == row.sql.kind = "index"
IsOtherRow(row) == row.sql.kind \notin {"table", "index"}

TableNamesIn(rs) == {rs[k].sql.table : k \in {j \in 1..Len(rs) : IsTableRow(rs[j])}}

\* An index row whose owning table has no table-creation row anywhere.
HasOrphan(rs) ==
    \E k \in 1..Len(rs) : IsIndexRow(rs[k]) /\ rs[k].sql.table \notin TableNamesIn(rs)

HasOther(rs) == \E k \in 1..Len(rs) : IsOtherRow(rs[k])

WithoutOther(rs) == SelectSeq(rs, LAMBDA r : ~IsOtherRow(r))

\* The indexes of table n, in schema-row order.
IndexRowsOf(rs, n) == SelectSeq(rs, LAMBDA r : IsIndexRow(r) /\ r.sql.table = n)

ExpectedIndexes(rs, n) ==
    [k \in 1..Len(IndexRowsOf(rs, n)) |->
        [name |-> IndexRowsOf(rs, n)[k].sql.name,
         columns |-> IndexRowsOf(rs, n)[k].sql.fields,
         table_name |-> n,
         rootpage |-> IndexRowsOf(rs, n)[k].rootpage]]

LastTableRow(rs, n) ==
    rs[CHOOSE k \in 1..Len(rs) :
          /\ IsTableRow(rs[k]) /\ rs[k].sql.table = n
          /\ \A j \in (k + 1)..Len(rs) : ~(IsTableRow(rs[j]) /\ rs[j].sql.table = n)]

\* The catalog of a list of table and index rows without orphans.
ExpectedTables(rs) ==
    [n \in TableNamesIn(rs) |->
        [name |-> n,
         columns |-> LastTableRow(rs, n).sql.fields,
         indexes |-> ExpectedIndexes(rs, n),
         rootpage |-> LastTableRow(rs, n).rootpage]]

UserTableRows(rs) ==
    SelectSeq(rs, LAMBDA r : IsTableRow(r) /\ ~StartsWith(r.sql.table, ReservedPrefix))

ExpectedNames(rs) == [k \in 1..Len(UserTableRows(rs)) |-> UserTableRows(rs)[k].sql.table]

\* C3: if some row is an index creation whose owning table was not registered
\* in pass 1, the build finishes with an OrphanIndex error result and returns
\* no catalog.  (Rows that are neither command are left out here, so that
\* only the orphan decides the outcome.)
C3_OrphanIndexError ==
    (cresult # "running" /\ ~HasOther(rows) /\ HasOrphan(rows))
        => cresult = "Err: OrphanIndex"

\* C4: a row whose sql is neither a table creation nor an index creation is
\* ignored: the build succeeds, with the catalog of the rows without it.
C4_OtherRowsIgnored ==
    (cresult # "running" /\ HasOther(rows) /\ ~HasOrphan(rows))
        => /\ cresult = "Ok"
           /\ tables = ExpectedTables(WithoutOther(rows))
           /\ table_names = ExpectedNames(WithoutOther(rows))

\* C5 as stated: after a successful build the sequence of names user_tables()
\* yields equals table_names, the user tables in first-encounter order.
\* (Stated for schemas in which no table name repeats; with a repeated name
\* table_names lists it twice and the sequences differ in length as well.)
C5_UserTablesInOrder ==
    (listed[1] = "names" /\ Cardinality(Range(table_names)) = Len(table_names))
        => listed[2] = table_names

\* C5 as amended: after a successful build user_tables() yields exactly the
\* tables whose name does not start with "sqlite_", each once and in no fixed
\* order; the set of names it yields is the set of names in table_names.
C5_UserTablesAsSet ==
    listed[1] = "names" =>
        /\ Cardinality(Range(listed[2])) = Len(listed[2])
        /\ Range(listed[2]) = Range(table_names)
        /\ Range(listed[2]) = {n \in DOMAIN tables : ~StartsWith(n, ReservedPrefix)}

C5_Witness ==
    /\ listed[1] = "names"
    /\ Len(listed[2]) = 2
    /\ listed[2] # table_names
    /\ NameInternal \in DOMAIN tables

\* The position of the first index of the table whose leading column is field.
FirstLeading(indexes, field) ==
    CHOOSE k \in 1..Len(indexes) :
        /\ indexes[k].columns[1] = field
        /\ \A j \in 1..(k - 1) : indexes[j].columns[1] # field

C7_NamesAreKeys ==
    cresult = "Ok" =>
        /\ \A k \in 1..Len(table_names) : table_names[k] \in DOMAIN tables
        /\ \A n \in DOMAIN tables :
               n \notin Range(table_names) => StartsWith(n, ReservedPrefix)

C7_Witness ==
    /\ cresult = "Ok"
    /\ NameInternal \in DOMAIN tables
    /\ NameSqlite \in Range(table_names)
    /\ Len(table_names) > Cardinality(Range(table_names))

\* How often an index occurs among the indexes of all tables.
Attachments(index) ==
    Cardinality({<<n, k>> \in (DOMAIN tables) \X (1..(MaxRows + 1)) :
                    k <= Len(tables[n].indexes) /\ tables[n].indexes[k] = index})

\* C9: for any order of table and index rows in which every index's owning
\* table has a table row somewhere, the build succeeds, each index is attached
\* to exactly one table, the one named by its table_name, and the indexes of a
\* table are in schema-row order.
C9_OrderIndependent ==
    (cresult # "running" /\ ~HasOther(rows) /\ ~HasOrphan(rows)) =>
        /\ cresult = "Ok"
        /\ DOMAIN tables = TableNamesIn(rows)
        /\ \A n \in DOMAIN tables : tables[n].indexes = ExpectedIndexes(rows, n)
        /\ \A k \in 1..Len(rows) :
               IsIndexRow(rows[k]) =>
                   Attachments([name |-> rows[k].sql.name,
                                columns |-> rows[k].sql.fields,
                                table_name |-> rows[k].sql.table,
                                rootpage |-> rows[k].rootpage]) = 1

\* A successful build whose first row is an index that precedes its table's
\* row, with two indexes attached to that table and a second table present.
C9_Witness ==
    /\ cresult = "Ok"
    /\ Len(rows) >= 1 /\ IsIndexRow(rows[1])
    /\ Len(tables[rows[1].sql.table].indexes) = 2
    /\ tables[rows[1].sql.table].indexes[1].name # tables[rows[1].sql.table].indexes[2].name
    /\ Cardinality(DOMAIN tables) = 2

====
